---- MODULE Spec2Model ----
(***************************************************************************)
(* Model of Koviko.Predictor (idleloops-predictor.user.js): the forward    *)
(* simulation of an action list, Predictor.update, with Prediction         *)
(* (tick count, experience), Snapshot and the loop engine Predictor.tick.  *)
(*                                                                         *)
(* Numbers.  JavaScript numbers are modelled as exact rationals            *)
(* [n |-> numerator, d |-> denominator]: experience and loop progress are  *)
(* sums of terms x * (manaCost / ticks).  Resources, counters and tick     *)
(* counts are integers.  Floating-point rounding is not modelled.          *)
(*                                                                         *)
(* Granularity.  update is synchronous; the model steps through it: one    *)
(* step per list entry begun, per repetition begun, per tick of a          *)
(* loop-bearing action (predict's loop body), one step for all the ticks   *)
(* of a repetition of an action without a loop (predict's whole loop), one *)
(* per repetition ended, one per entry ended, one for the totals.          *)
(***************************************************************************)
EXTENDS Integers, Sequences, FiniteSets, TLC

\* ------------------------------------------------------------- bounds
\* Longest action list drawn as input.
MaxEntries == 2
\* Largest repeat count ("loops") of a list entry.
MaxLoops == 2

\* ---------------------------------------------------------- rationals
Rat(n, d) == [n |-> n, d |-> d]
RInt(n) == [n |-> n, d |-> 1]
\* JavaScript null (the delta of a Snapshot before its first diff).
Null == [n |-> 0, d |-> 0]
Abs(x) == IF x < 0 THEN -x ELSE x

RECURSIVE GCD(_, _)
GCD(a, b) == IF b = 0 THEN a ELSE GCD(b, a % b)

RNorm(x) ==
  LET g == GCD(Abs(x.n), x.d)
  IN  IF x.n = 0 THEN RInt(0) ELSE Rat(x.n \div g, x.d \div g)
RAdd(x, y) ==
  IF x.d = y.d THEN Rat(x.n + y.n, x.d)
  ELSE IF x.d % y.d = 0 THEN Rat(x.n + y.n * (x.d \div y.d), x.d)
  ELSE IF y.d % x.d = 0 THEN Rat(x.n * (y.d \div x.d) + y.n, y.d)
  ELSE RNorm(Rat(x.n * y.d + y.n * x.d, x.d * y.d))
RNeg(x) == Rat(-x.n, x.d)
RSub(x, y) == RAdd(x, RNeg(y))
RMul(x, y) == RNorm(Rat(x.n * y.n, x.d * y.d))
RScale(x, k) == Rat(x.n * k, x.d)
RGeq(x, y) == x.n * y.d >= y.n * x.d
REq(x, y) == x.n * y.d = y.n * x.d
\* Math.floor
RFloor(x) == x.n \div x.d

RECURSIVE RSum(_, _)
\* sum of f[i] over the finite set S (Array.prototype.reduce with +)
RSum(f, S) ==
  IF S = {} THEN RInt(0)
  ELSE LET i == CHOOSE j \in S : TRUE IN RAdd(f[i], RSum(f, S \ {i}))

\* A JavaScript object as a function with a domain that grows.
Put(o, key, v) == [x \in (DOMAIN o) \cup {key} |-> IF x = key THEN v ELSE o[x]]
\* o[key] || 0
GetOr0(o, key) == IF key \in DOMAIN o THEN o[key] ELSE 0

\* ------------------------------------------------- host collaborators
\* Koviko.globals.statList
statList == {"Str", "Int"}

\* Experience needed per step of the level curve, and the step's height.
ExpPerLevel == 250
LevelStep == 100
\* Koviko.globals.getLevelFromExp: a monotonic step curve.
getLevelFromExp(e) == LevelStep * (RFloor(e) \div ExpPerLevel)

SkillExpPerLevel == 10
\* Koviko.globals.getSkillLevelFromExp: a monotonic step curve.
getSkillLevelFromExp(e) == RFloor(e) \div SkillExpPerLevel

\* Koviko.globals.getTotalBonusXP(stat)
getTotalBonusXP(stat) == IF stat = "Str" THEN 2 ELSE 1

\* Koviko.globals.skills: the host's current skill experience.
HostMagicExp == 40
hostSkills == [Magic |-> [exp |-> RInt(HostMagicExp)]]

\* towns[0].goodPots and goldCostSmashPots()
goodPots == 2
goldCostSmashPots == 50
\* towns[townNum]['total' + varName]: loops completed before this run.
HostTotalLoops == 5
\* Segment cost and tick progress of the rule "Const Loop" (the scenario of
\* a loop with a constant cost per segment and a constant tick progress).
SegmentCost == 100
TickProgress == 50
\* Segment cost and tick progress of the rule "Mana Loop" (a loop whose
\* segment effect gives mana, as that of 'Adventure Guild' does).
ManaSegmentCost == 85
ManaTickProgress == 5
\* ticks of "Const Loop" whose progress one tick of "Surge Loop" makes
SurgeTicks == 7

\* Koviko~Action: what Koviko.globals.translateClassNames(name) returns.
\* manaCost is the value of a.manaCost(); stats, expMult, segments and
\* loopStats are the host's metadata of the action.
translateClassNames(name) ==
  CASE name = "Smash Pots" ->
         [name |-> name, stats |-> [Str |-> 10], expMult |-> 1, manaCost |-> 25,
          segments |-> 0, loopStats |-> <<>>]
    [] name = "Haggle" ->
         [name |-> name, stats |-> [Int |-> 1], expMult |-> 1, manaCost |-> 1,
          segments |-> 0, loopStats |-> <<>>]
    [] name = "Never" ->
         [name |-> name, stats |-> [Str |-> 10], expMult |-> 1, manaCost |-> 1,
          segments |-> 0, loopStats |-> <<>>]
    [] name = "Imbue Mind" ->
         [name |-> name, stats |-> [Str |-> 1], expMult |-> 1, manaCost |-> 2,
          segments |-> 3, loopStats |-> <<"Str", "Int", "Str">>]
    [] name = "Const Loop" ->
         [name |-> name, stats |-> [Int |-> 1], expMult |-> 1, manaCost |-> 2,
          segments |-> 2, loopStats |-> <<"Int", "Str">>]
    [] name = "Mana Loop" ->
         [name |-> name, stats |-> [Int |-> 1], expMult |-> 1, manaCost |-> 18,
          segments |-> 2, loopStats |-> <<"Int", "Int">>]
    [] name = "Wander" ->
         [name |-> name, stats |-> [Luck |-> 1], expMult |-> 1, manaCost |-> 1,
          segments |-> 0, loopStats |-> <<>>]
    [] name = "Adventure Guild" ->
         [name |-> name, stats |-> [Int |-> 1], expMult |-> 1, manaCost |-> 4,
          segments |-> 2, loopStats |-> <<"Int", "Str">>]
    [] name = "Surge Loop" ->
         [name |-> name, stats |-> [Int |-> 1], expMult |-> 1, manaCost |-> 2,
          segments |-> 2, loopStats |-> <<"Int", "Str">>]

\* ------------------------------------------------------ the rule table
\* A loop attribute that is absent (params.loop || null).
NoLoop == [isNull |-> TRUE, hasMax |-> FALSE, effect |-> {}]

\* The `predictions` object of initPredictions: name -> parameters.  A
\* parameter object is a function on the keys it has.  A function-valued
\* parameter is named by its rule: canStart "function", effect "function";
\* loop.effect is the set of the loop effects the rule has.  The progress
\* of "Imbue Mind" is counted in units of 10^8, the factor of its cost, and
\* the host's Magic level in the same unit.  "Const Loop" and "Never" are
\* rules of the kinds the parameter object admits that the table does not
\* hold: a loop with constant cost and tick progress, and a fixed canStart
\* (with the effect of 'Throw Party'); so are "Mana Loop" and "Surge Loop"
\* (one tick's progress is more than the cost of a whole loop).  The action
\* of 'Wander' has no stat of statList.  The cost and the tick progress of 'Adventure Guild' are
\* those of "Const Loop".
PredictionNames ==
  {"Smash Pots", "Haggle", "Never", "Imbue Mind", "Const Loop", "Mana Loop",
   "Wander", "Adventure Guild", "Surge Loop"}
predictionParams(name) ==
  CASE name = "Smash Pots" -> [affected |-> {"mana"}, effect |-> "function"]
    [] name = "Haggle" ->
         [affected |-> {"rep"}, canStart |-> "function", effect |-> "function"]
    [] name = "Never" ->
         [affected |-> {"rep"}, canStart |-> "false", effect |-> "function"]
    [] name = "Imbue Mind" ->
         [affected |-> {"mind"},
          loop |-> [isNull |-> FALSE, hasMax |-> TRUE, effect |-> {"loop"}]]
    [] name = "Const Loop" ->
         [affected |-> {"gold", "rep"},
          loop |-> [isNull |-> FALSE, hasMax |-> FALSE,
                    effect |-> {"segment", "loop", "end"}]]
    [] name = "Mana Loop" ->
         [affected |-> {"mana"},
          loop |-> [isNull |-> FALSE, hasMax |-> FALSE, effect |-> {"segment"}]]
    [] name = "Wander" -> <<>>
    [] name = "Adventure Guild" ->
         [affected |-> {"gold", "adventures"},
          loop |-> [isNull |-> FALSE, hasMax |-> FALSE, effect |-> {"segment"}]]
    [] name = "Surge Loop" ->
         [affected |-> {"gold"},
          loop |-> [isNull |-> FALSE, hasMax |-> FALSE,
                    effect |-> {"segment", "loop"}]]

\* params.key || dflt, for a key whose value, when present, is truthy
ParamOr(params, key, dflt) ==
  IF key \in DOMAIN params THEN params[key] ELSE dflt

\* params.canStart || true: undefined and false are falsy.
CanStartParam(params) ==
  IF "canStart" \in DOMAIN params /\ params["canStart"] # "false"
  THEN params["canStart"] ELSE "true"

\* Prediction.constructor(name, params), without _ticks (see cachedTicks).
Prediction(name, params) ==
  [name |-> name,
   action |-> translateClassNames(name),
   affected |-> ParamOr(params, "affected", {}),
   effect |-> ParamOr(params, "effect", "null"),
   loop |-> ParamOr(params, "loop", NoLoop),
   canStart |-> CanStartParam(params)]

\* this.predictions, as initPredictions leaves it
predictions == [name \in PredictionNames |-> Prediction(name, predictionParams(name))]

\* ------------------------------------------------- the rules' functions
\* prediction.canStart(state.resources) of the rules whose canStart is a
\* function.  "Haggle": (input) => (input.rep > 0)
canStartFn(name, r) ==
  CASE name = "Haggle" -> GetOr0(r, "rep") > 0
    [] OTHER -> TRUE

\* prediction.effect(state.resources, state.skills): the pair <<r, k>> after.
effectFn(name, r, k) ==
  CASE name = "Smash Pots" ->
         LET t == GetOr0(r, "temp1") + 1
             r1 == Put(r, "temp1", t)
         IN  <<[r1 EXCEPT !["mana"] = @ + (IF t <= goodPots THEN goldCostSmashPots ELSE 0)], k>>
    [] name = "Haggle" ->
         LET sd == GetOr0(r, "supplyDiscount")
         IN  <<Put([r EXCEPT !["rep"] = @ - 1], "supplyDiscount",
                   IF sd >= 15 THEN 15 ELSE sd + 1), k>>
    [] name = "Never" -> <<[r EXCEPT !["rep"] = @ - 2], k>>
    [] OTHER -> <<r, k>>

\* prediction.loop.effect[kind](state.resources, state.skills)
loopEffectFn(name, kind, r, k) ==
  CASE name = "Imbue Mind" /\ kind = "loop" -> <<[r EXCEPT !["mind"] = @ + 1], k>>
    [] name = "Const Loop" /\ kind = "segment" -> <<[r EXCEPT !["gold"] = @ + 20], k>>
    [] name = "Const Loop" /\ kind = "loop" -> <<[r EXCEPT !["rep"] = @ + 1], k>>
    [] name = "Const Loop" /\ kind = "end" ->
         <<r, [k EXCEPT !["magic"] = RAdd(@, RInt(10))]>>
    [] name = "Mana Loop" /\ kind = "segment" ->
         <<[r EXCEPT !["mana"] = @ + 200], k>>
    [] name = "Adventure Guild" /\ kind = "segment" ->
         <<[r EXCEPT !["mana"] = @ + 200, !["adventures"] = @ + 1], k>>
    [] name = "Surge Loop" /\ kind = "segment" ->
         <<[r EXCEPT !["gold"] = @ + 20], k>>
    [] name = "Surge Loop" /\ kind = "loop" -> <<[r EXCEPT !["gold"] = @ + 100], k>>
    [] OTHER -> <<r, k>>

\* prediction.loop.max(action)
loopMax(name) == 1

\* prediction.loop.cost(p, a)(segment)
loopCost(name, p, a, segment) ==
  CASE name = "Imbue Mind" -> RInt(1 * (segment * 5 + 1))
    [] name = "Const Loop" -> RInt(SegmentCost)
    [] name = "Mana Loop" -> RInt(ManaSegmentCost)
    [] name \in {"Adventure Guild", "Surge Loop"} -> RInt(SegmentCost)

\* s[a.loopStats[(p.completed + offset) % a.loopStats.length]]
loopStat(p, a, s, offset) ==
  s[a.loopStats[((p.completed + offset) % Len(a.loopStats)) + 1]]

\* prediction.loop.tick(p, a, s, k, r)(offset)
loopTick(name, p, a, s, k, r, offset) ==
  CASE name = "Imbue Mind" ->
         LET attempt == p.completed \div a.segments
         IN  IF attempt < 1
             THEN RScale(Rat(100 + getLevelFromExp(loopStat(p, a, s, offset)), 100),
                         getSkillLevelFromExp(k["magic"]))
             ELSE RInt(0)
    [] name = "Const Loop" -> RInt(TickProgress)
    [] name = "Mana Loop" -> RInt(ManaTickProgress)
    [] name = "Adventure Guild" -> RInt(TickProgress)
    [] name = "Surge Loop" -> RInt(SurgeTicks * TickProgress)

\* ------------------------------------------------------- Prediction
\* 1 / .000001, the epsilon of updateTicks
EpsilonInverse == 1000000

\* Math.ceil(x - .000001) of a rational x >= 0
CeilMinusEpsilon(x) ==
  LET q == x.n \div x.d
      r == x.n % x.d
  IN  IF r <= x.d \div EpsilonInverse THEN q ELSE q + 1

\* i in a.stats && i in s
StatCounts(a, s, i) == i \in DOMAIN a.stats /\ i \in DOMAIN s

\* Variant: a stat the action does not list counts with weight 1.
StatCostOfEveryStat(a, s, i) ==
  IF i \in DOMAIN s
  THEN Rat((IF i \in DOMAIN a.stats THEN a.stats[i] ELSE 1) * 100,
           100 + getLevelFromExp(s[i]))
  ELSE RInt(0)

\* Variant: the level multiplies the weight.
StatCostTimesLevel(a, s, i) ==
  IF StatCounts(a, s, i)
  THEN Rat(a.stats[i] * (100 + getLevelFromExp(s[i])), 100)
  ELSE RInt(0)

\* the summand of updateTicks: a.stats[i] / (1 + getLevelFromExp(s[i]) / 100)
StatCost(a, s, i) ==
  IF StatCounts(a, s, i)
  THEN Rat(a.stats[i] * 100, 100 + getLevelFromExp(s[i]))
  ELSE RInt(0)

\* Prediction.updateTicks(a, s): the value stored in _ticks and returned
updateTicks(a, s) ==
  LET cost == RSum([i \in statList |-> StatCost(a, s, i)], statList)
  IN  CeilMinusEpsilon(RScale(cost, a.manaCost))

\* Prediction.ticks(): this._ticks || this.updateTicks().  A _ticks of 0 is
\* falsy, and updateTicks called without arguments reads a.stats of an
\* undefined a: a TypeError is raised.
TicksRaises(cached) == cached = 0

\* Variant: the tick count is computed again from the stats of the moment.
TicksFromStatsNow(cached, a, s) == updateTicks(a, s)

\* this.ticks() as exp and tick read it during a repetition: the stored
\* _ticks, whatever the stats have become
TicksRead(cached, a, s) == cached

\* the experience one tick adds to stat i:
\* a.stats[i] * a.expMult * (a.manaCost() / this.ticks()) * getTotalBonusXP(i)
ExpPerTick(a, i, t) ==
  Rat(a.stats[i] * a.expMult * a.manaCost * getTotalBonusXP(i), t)

\* Prediction.exp(a, s) with this.ticks() = t: the stats after
exp(a, s, t) ==
  [i \in DOMAIN s |->
     IF i \in statList /\ StatCounts(a, s, i)
     THEN RAdd(s[i], ExpPerTick(a, i, TicksRead(t, a, s))) ELSE s[i]]

\* --------------------------------------------------- Predictor.tick
\* maxSegments = loop.max ? loop.max(action) * totalSegments : Infinity,
\* as the test `segment < maxSegments`
BelowMaxSegments(prediction, segment) ==
  \/ ~prediction.loop.hasMax
  \/ segment < loopMax(prediction.name) * prediction.action.segments

\* Variant: the loop completes one segment later.
LoopCompletesLate(segment, totalSegments) == segment >= totalSegments

\* the test that a loop completes: segment >= totalSegments - 1
LoopCompletes(segment, totalSegments) == segment >= totalSegments - 1

\* Variant: progression.completed++ for the segment that ends the loop.
CompletedPlusOne(completed, totalSegments) == completed + 1

\* progression.completed += totalSegments
CompletedAfterLoop(completed, totalSegments) == completed + totalSegments

\* Variant: the total of loops is not counted.
TotalKept(total) == total

\* progression.total++
TotalAfterLoop(total) == total + 1

\* Variant: the progress is kept when the loop completes.
ProgressKept(progress) == progress

\* progression.progress = 0, when the loop completes
ProgressAfterLoop(progress) == RInt(0)

RECURSIVE SegmentBefore(_, _, _, _)
\* for (; progress >= loopCost(segment); progress -= loopCost(segment++));
\* returns <<progress, segment>>
SegmentBefore(prediction, p, progress, segment) ==
  LET c == loopCost(prediction.name, p, prediction.action, segment)
  IN  IF RGeq(progress, c)
      THEN SegmentBefore(prediction, p, RSub(progress, c), segment + 1)
      ELSE <<progress, segment>>

\* Variant: an iteration of the second loop leaves everything as it is.
SegmentStays(prediction, w) == w

\* the body of the second loop of tick and its update expression, on
\* w = [progress, segment, p, r, k, fired]
SegmentStep(prediction, w) ==
  LET a == prediction.action
      name == prediction.name
      completes == LoopCompletes(w.segment, a.segments)
      p1 == IF completes
            THEN [progress |-> ProgressAfterLoop(w.p.progress),
                  completed |-> CompletedAfterLoop(w.p.completed, a.segments),
                  total |-> TotalAfterLoop(w.p.total)]
            ELSE w.p
      seg1 == IF completes THEN w.segment - a.segments ELSE w.segment
      doLoop == completes /\ "loop" \in prediction.loop.effect
      rk1 == IF doLoop THEN loopEffectFn(name, "loop", w.r, w.k) ELSE <<w.r, w.k>>
      doSeg == "segment" \in prediction.loop.effect
      rk2 == IF doSeg THEN loopEffectFn(name, "segment", rk1[1], rk1[2]) ELSE rk1
  IN  [progress |-> RSub(w.progress, loopCost(name, p1, a, seg1)),
       segment |-> seg1 + 1,
       p |-> p1, r |-> rk2[1], k |-> rk2[2],
       fired |-> [w.fired EXCEPT !.loop = @ + (IF doLoop THEN 1 ELSE 0),
                                 !.segment = @ + (IF doSeg THEN 1 ELSE 0)]]

RECURSIVE SegmentsAfter(_, _)
\* for (; progress >= loopCost(segment) && segment < maxSegments; ...) {...}
SegmentsAfter(prediction, w) ==
  IF /\ RGeq(w.progress, loopCost(prediction.name, w.p, prediction.action, w.segment))
     /\ BelowMaxSegments(prediction, w.segment)
  THEN SegmentsAfter(prediction, SegmentStep(prediction, w))
  ELSE w

\* Variant: the progress of the tick is not looked at.
TickReturnsBelowOnly(additionalProgress, below) == below

\* return additionalProgress && segment < maxSegments, as a boolean (0 is
\* falsy), `below` being segment < maxSegments
TickReturns(additionalProgress, below) == additionalProgress.n # 0 /\ below

\* Predictor.tick(prediction, state) with prediction.ticks() = t; st is
\* [state, fired] and the result [state, fired, again, delta, segment],
\* again being the value returned as a boolean, delta the
\* additionalProgress of the tick (null without a loop) and segment the
\* local segment index at the return.
tick(prediction, st, t) ==
  LET a == prediction.action
      name == prediction.name
      stats1 == exp(a, st.state.stats, t)
  IN  IF prediction.loop.isNull
      THEN [state |-> [st.state EXCEPT !.stats = stats1], fired |-> st.fired,
            again |-> TRUE, delta |-> Null, segment |-> 0]
      ELSE
        LET p == st.state.progress[name]
            before == SegmentBefore(prediction, p, p.progress, 0)
            additionalProgress ==
              RMul(loopTick(name, p, a, stats1, st.state.skills,
                            st.state.resources, before[2]),
                   Rat(a.manaCost, TicksRead(t, a, stats1)))
            w == SegmentsAfter(prediction,
                   [progress |-> RAdd(before[1], additionalProgress),
                    segment |-> before[2],
                    p |-> [p EXCEPT !.progress = RAdd(@, additionalProgress)],
                    r |-> st.state.resources, k |-> st.state.skills,
                    fired |-> st.fired[name]])
        IN  [state |-> [resources |-> w.r, stats |-> stats1, skills |-> w.k,
                        progress |-> [st.state.progress EXCEPT ![name] = w.p]],
             fired |-> [st.fired EXCEPT ![name] = w.fired],
             again |-> TickReturns(additionalProgress,
                                   BelowMaxSegments(prediction, w.segment)),
             delta |-> additionalProgress, segment |-> w.segment]

\* Variant: a tick costs no mana.
ManaKept(mana) == mana

\* state.resources.mana--
ManaAfterTick(mana) == mana - 1

\* the body of predict's loop: state.resources.mana--, then tick
TickOnce(prediction, st, t) ==
  tick(prediction,
       [st EXCEPT !.state.resources["mana"] = ManaAfterTick(@)], t)

\* Variant: ticks <= prediction.ticks(), one tick more.
OneMoreTick(ticks, t) == ticks <= t

\* the loop condition of predict: ticks < prediction.ticks()
MoreTicks(ticks, t) == ticks < t

RECURSIVE RunTicks(_, _, _, _)
\* `count` successive bodies of predict's loop, stopping after the first one
\* whose tick returns false; res = [state, fired, ticks, again] carries the
\* number of bodies run so far and whether the last tick returned true.
\* (The bodies run in order; the recursion halves the count to stay shallow.)
RunTicks(prediction, res, t, count) ==
  IF count = 0 \/ ~res.again THEN res
  ELSE IF count = 1
  THEN LET n == TickOnce(prediction, [state |-> res.state, fired |-> res.fired], t)
       IN  [state |-> n.state, fired |-> n.fired, ticks |-> res.ticks + 1,
            again |-> n.again]
  ELSE RunTicks(prediction, RunTicks(prediction, res, t, count \div 2), t,
                count - (count \div 2))

\* the number of times the loop condition of predict, ticks < prediction.ticks(),
\* can hold from `ticks` on
TicksLeft(ticks, t) ==
  Cardinality({n \in ticks..(IF t > ticks THEN t + 1 ELSE ticks) : MoreTicks(n, t)})

\* for (let ticks = 0; ticks < prediction.ticks(); ticks++) {...} from
\* `ticks` on; returns [state, fired, ticks, again]
PredictLoop(prediction, st, t, ticks) ==
  RunTicks(prediction,
           [state |-> st.state, fired |-> st.fired, ticks |-> ticks, again |-> TRUE],
           t, TicksLeft(ticks, t))

\* --------------------------------------------------------- Snapshot
\* a value read from an object that lacks the key (undefined, NaN in sums)
NaN == [n |-> 0, d |-> -1]

\* Snapshot.init(attributes) on the snapshot sn
SnapshotInit(sn, attributes) ==
  [attributes |->
     [x \in (DOMAIN sn.attributes) \cup (DOMAIN attributes) |->
        IF x \in DOMAIN attributes
        THEN [value |-> attributes[x], delta |-> Null]
        ELSE sn.attributes[x]],
   isInitialized |-> TRUE]

\* new Koviko.Snapshot(attributes), attributes being an object
SnapshotNew(attributes) ==
  SnapshotInit([attributes |-> <<>>, isInitialized |-> FALSE], attributes)

\* new Koviko.Snapshot(), without attributes
SnapshotBare == [attributes |-> <<>>, isInitialized |-> FALSE]

\* x - y of two JavaScript values (undefined is kept as NaN)
Minus(x, y) == IF x = NaN \/ y = NaN THEN NaN ELSE RSub(x, y)

\* Variant: the value is stored before the delta is taken.
SnapshotSnapStoredFirst(sn, attributes) ==
  LET s1 == IF sn.isInitialized THEN sn ELSE SnapshotInit(sn, attributes)
  IN  [s1 EXCEPT !.attributes =
         [x \in DOMAIN s1.attributes |->
            IF x \in DOMAIN attributes
            THEN [value |-> attributes[x],
                  delta |-> Minus(attributes[x], attributes[x])]
            ELSE [value |-> NaN, delta |-> NaN]]]

\* Variant: snap initializes with the given attributes every time.
SnapshotSnapInitsAgain(sn, attributes) ==
  LET s1 == SnapshotInit(sn, attributes)
  IN  [s1 EXCEPT !.attributes =
         [x \in DOMAIN s1.attributes |->
            IF x \in DOMAIN attributes
            THEN [value |-> attributes[x],
                  delta |-> Minus(attributes[x], s1.attributes[x].value)]
            ELSE [value |-> NaN, delta |-> NaN]]]

\* Snapshot.snap(attributes) on the snapshot sn
SnapshotSnap(sn, attributes) ==
  LET s1 == IF sn.isInitialized THEN sn ELSE SnapshotInit(sn, attributes)
  IN  [s1 EXCEPT !.attributes =
         [x \in DOMAIN s1.attributes |->
            IF x \in DOMAIN attributes
            THEN [value |-> attributes[x],
                  delta |-> Minus(attributes[x], s1.attributes[x].value)]
            ELSE [value |-> NaN, delta |-> NaN]]]

\* ------------------------------------------------- Predictor.update
VARIABLES
  actions,      \* the host's action list (actions.next): <<[name, loops], ...>>
  pc,           \* where update is: "idle", "entry", "rep", "tick", "endrep",
                \* "done", or "threw" (left by an exception)
  i,            \* index of the list entry being run, from 1
  loop,         \* the repetition counter `loop` of the entry
  ticks,        \* the counter `ticks` of predict
  state,        \* [resources, stats, skills, progress]
  snapshots,    \* [stats, skills]: the two Snapshots of the run
  total,        \* `total`: mana used
  totalTicks,   \* `totalTicks`: time used
  affected,     \* `affected`: the resources shown
  isValid,      \* `isValid` of the entry being run
  currentMana,  \* `currentMana` of the repetition being run
  cachedTicks,  \* Prediction._ticks of every Prediction (kept between runs)
  reports,      \* what update has put into the entries' elements, in order
  totalDisplay, \* what update has put into this.totalDisplay
  fired,        \* per rule, in the run: loop effects invoked, and ticks run
  prev,         \* the list and the output of the run before this one
  entryStart,   \* state and totals when the entry being run began
  repStart,     \* state when the repetition being run began
  repTicks,     \* bodies of predict's loop run in the repetition being run
  entryLog,     \* per entry begun: what was run for it (reps, ticks per
                \* repetition, mana negative after a repetition's ticks
                \* (negative) or after the decrement or the effects of any
                \* tick (below))
  last,         \* the last operation made on its own on a Snapshot or on a
                \* stat's experience: what it was given and what was there
                \* before it
  page          \* the page the script is in: the globals the host has
                \* defined, Koviko.hasRan, Koviko.globals as bound, what
                \* console.error was called for, whether the Predictor is
                \* constructed and whether run has thrown to its caller,
                \* how often run was called and how often it constructed

vars ==
  <<last, page, actions, pc, i, loop, ticks, state, snapshots, total, totalTicks, affected,
    isValid, currentMana, cachedTicks, reports, totalDisplay, fired, prev,
    entryStart, repStart, repTicks, entryLog>>

\* resources.mana at the start of a run
StartMana == 250

\* a list entry: a name with a Prediction, repeated 1..MaxLoops times, or a
\* name without one (its repeat count is never read)
EntriesOf(names) ==
  [name : names, loops : 1..MaxLoops] \cup {[name |-> "Unknown", loops |-> 1]}
ListsOf(entries) == UNION {[1..n -> entries] : n \in 0..MaxEntries}

\* the lists of the rules of the table and of the two kinds of rule beside
\* it, and the lists of the rules that bring mana below zero and back
ListedNames == {"Smash Pots", "Haggle", "Never", "Imbue Mind", "Const Loop"}
Entries == EntriesOf(ListedNames)
ActionLists == ListsOf(Entries)
ManaNames == {"Smash Pots", "Mana Loop", "Wander"}
ManaLists == ListsOf(EntriesOf(ManaNames))

\* the lists with 'Adventure Guild'
GuildNames == {"Adventure Guild", "Smash Pots"}
GuildLists == ListsOf(EntriesOf(GuildNames))

\* the lists of the loops whose tick progress is large, or zero once the
\* loop is capped
EngineNames == {"Surge Loop", "Imbue Mind", "Smash Pots"}
EngineLists == ListsOf(EntriesOf(EngineNames))

\* the lists of three entries, for a loop that is listed again after
\* another entry
ResumeNames == {"Const Loop", "Imbue Mind", "Smash Pots"}
ResumeLists ==
  {<<a, b, c>> : a \in EntriesOf(ResumeNames), b \in EntriesOf(ResumeNames),
                 c \in EntriesOf(ResumeNames)}

\* this.predictions[listedAction.name], as the test `if (prediction)`
HasPrediction(name) == name \in DOMAIN predictions

\* `affected` of update: the affected resources of the listed predictions
AffectedOf(list) ==
  UNION {IF HasPrediction(list[j].name) THEN predictions[list[j].name].affected ELSE {}
         : j \in 1..Len(list)}

\* Variant: state.stats as the run before left them.
StaleStats ==
  IF pc = "done" THEN state.stats ELSE [name \in statList |-> RInt(0)]

\* state.stats at the start of a run
FreshStats == [name \in statList |-> RInt(0)]

\* state.skills at the start of a run: the host's skills, keys in lower case
FreshSkills == [magic |-> hostSkills["Magic"].exp]

\* state.resources at the start of a run, the affected resources initialized:
\* affected.forEach(x => state.resources[x] || (state.resources[x] = 0))
FreshResources(aff) ==
  [x \in {"mana", "town"} \cup aff |->
     IF x = "mana" THEN StartMana ELSE 0]

\* `state` of update
FreshState(aff) ==
  [resources |-> FreshResources(aff), stats |-> FreshStats,
   skills |-> FreshSkills, progress |-> <<>>]

NoFired ==
  [name \in PredictionNames |-> [loop |-> 0, segment |-> 0, end |-> 0, ticks |-> 0]]
NoPrev == [has |-> FALSE, actions |-> <<>>, reports |-> <<>>,
           totalDisplay |-> [shown |-> FALSE, total |-> 0, time |-> <<>>]]
NoDisplay == [shown |-> FALSE, total |-> 0, time |-> <<>>]
NoMark == [resources |-> <<>>, stats |-> <<>>, skills |-> <<>>, total |-> 0,
           totalTicks |-> 0]

\* the list without the entries whose name has no Prediction
RECURSIVE WithoutUnknown(_)
WithoutUnknown(list) ==
  IF list = <<>> THEN <<>>
  ELSE (IF HasPrediction(Head(list).name) THEN <<Head(list)>> ELSE <<>>)
       \o WithoutUnknown(Tail(list))

\* Koviko.globals, in the order run binds them
globals ==
  <<"view", "actions", "nextActionsDiv", "statList", "skills", "towns",
    "dungeons", "fibonacci", "precision3", "translateClassNames",
    "getLevelFromExp", "getSkillLevelFromExp", "getTotalBonusXP",
    "goldCostSmashPots", "goldCostWildMana", "goldCostLocks",
    "goldCostSQuests", "goldCostLQuests">>
GlobalNames == {globals[n] : n \in 1..Len(globals)}

\* the page after run has bound every global and constructed the Predictor
PageWithPredictor ==
  [defined |-> GlobalNames, hasRan |-> TRUE, bound |-> GlobalNames,
   logged |-> {}, constructed |-> TRUE, raised |-> FALSE,
   runs |-> 1, built |-> 1]

NoLast == [op |-> "none"]

\* no run of update has begun
Idle ==
  /\ pc = "idle"
  /\ i = 0 /\ loop = 0 /\ ticks = 0
  /\ total = 0 /\ totalTicks = 0
  /\ affected = {}
  /\ isValid = TRUE /\ currentMana = 0
  /\ reports = <<>>
  /\ totalDisplay = NoDisplay
  /\ fired = NoFired
  /\ prev = NoPrev
  /\ entryStart = NoMark /\ repStart = NoMark /\ repTicks = 0
  /\ entryLog = <<>>

InitOn(lists) ==
  /\ actions \in lists
  /\ Idle
  /\ state = FreshState({})
  /\ snapshots = [stats |-> SnapshotNew(FreshStats), skills |-> SnapshotNew(FreshSkills)]
  /\ cachedTicks = [name \in PredictionNames |-> 0]
  /\ last = NoLast
  /\ page = PageWithPredictor

Init == InitOn(ActionLists)
ManaInit == InitOn(ManaLists)
GuildInit == InitOn(GuildLists)
EngineInit == InitOn(EngineLists)
ResumeInit == InitOn(ResumeLists)

\* The host calls view.updateNextActions: update(actions.next, container)
\* begins.  Between two runs the list is as it was, or the user has removed
\* the entries that name no Prediction.
BeginUpdate(list) ==
  /\ pc \in {"idle", "done", "threw"}
  /\ actions' = list
  /\ prev' = IF pc = "done"
             THEN [has |-> TRUE, actions |-> actions, reports |-> reports,
                   totalDisplay |-> totalDisplay]
             ELSE prev
  /\ affected' = AffectedOf(list)
  /\ state' = FreshState(AffectedOf(list))
  /\ snapshots' = [stats |-> SnapshotNew(FreshStats),
                   skills |-> SnapshotNew(FreshSkills)]
  /\ total' = 0 /\ totalTicks' = 0
  /\ reports' = <<>>
  /\ totalDisplay' = NoDisplay
  /\ fired' = NoFired
  /\ i' = 1 /\ loop' = 0 /\ ticks' = 0
  /\ isValid' = TRUE /\ currentMana' = 0
  /\ entryStart' = NoMark /\ repStart' = NoMark /\ repTicks' = 0
  /\ entryLog' = <<>>
  /\ pc' = "entry"
  /\ UNCHANGED <<last, cachedTicks>>

\* view.updateNextActions as the Predictor's constructor hooked it
Update(list) ==
  /\ page.constructed
  /\ BeginUpdate(list)
  /\ UNCHANGED page

\* the entry being run and its Prediction
listedAction == actions[i]
prediction == predictions[listedAction.name]

\* the Progression a loop rule gets when first met in a run
FreshProgression == [progress |-> RInt(0), completed |-> 0, total |-> HostTotalLoops]

\* Variant: canStart is not consulted.
AlwaysStarts(pred, r) == TRUE

\* typeof(prediction.canStart) === "function"
\*   ? prediction.canStart(state.resources) : prediction.canStart
CanStart(pred, r) ==
  IF pred.canStart = "function" THEN canStartFn(pred.name, r)
  ELSE pred.canStart = "true"

\* Variant: canStart is consulted before the first repetition only.
StartCheckedOnce ==
  /\ loop < listedAction.loops
  /\ (loop > 0 \/ CanStart(prediction, state.resources))

\* the condition under which the repetition loop runs its body once more:
\* loop < listedAction.loops, and canStart
RepetitionStarts ==
  /\ loop < listedAction.loops
  /\ CanStart(prediction, state.resources)

\* Variant: forEach ends with entry j.
NoNextEntry(j, n) == n + 1

\* the entry forEach runs after entry j of n
NextEntry(j, n) == j + 1

\* actions.forEach: an entry whose name has no Prediction changes nothing.
SkipEntry ==
  /\ pc = "entry" /\ i <= Len(actions)
  /\ ~HasPrediction(listedAction.name)
  /\ i' = NextEntry(i, Len(actions))
  /\ UNCHANGED <<last, page, actions, pc, loop, ticks, state, snapshots, total, totalTicks,
                 affected, isValid, currentMana, cachedTicks, reports,
                 totalDisplay, fired, prev, entryStart, repStart, repTicks,
                 entryLog>>

\* Variant: every entry of a loop makes the Progression anew.
ProgressionMadeEachEntry(pred, progress) == ~pred.loop.isNull

\* prediction.loop && !(prediction.name in state.progress)
ProgressionMissing(pred, progress) ==
  ~pred.loop.isNull /\ pred.name \notin DOMAIN progress

\* no tick has been run for the entry
NoTick == [ran |-> FALSE, again |-> TRUE, delta |-> Null, segment |-> 0, loops |-> 0]

\* actions.forEach: an entry with a Prediction begins; isValid = true and the
\* loop's Progression is made if the run has none yet.
BeginEntry ==
  /\ pc = "entry" /\ i <= Len(actions)
  /\ HasPrediction(listedAction.name)
  /\ isValid' = TRUE
  /\ state' = IF ProgressionMissing(prediction, state.progress)
              THEN [state EXCEPT !.progress = Put(@, prediction.name, FreshProgression)]
              ELSE state
  /\ loop' = 0
  /\ entryStart' = [resources |-> state.resources, stats |-> state.stats,
                    skills |-> state.skills, total |-> total,
                    totalTicks |-> totalTicks]
  /\ entryLog' = Append(entryLog,
                   [index |-> i, name |-> listedAction.name,
                    loops |-> listedAction.loops, reps |-> 0, ended |-> FALSE,
                    negative |-> FALSE, below |-> FALSE, repTicks |-> <<>>,
                    stats |-> state.stats, skills |-> state.skills,
                    lastTick |-> NoTick, repLog |-> <<>>])
  /\ pc' = "rep"
  /\ UNCHANGED <<last, page, actions, i, ticks, snapshots, total, totalTicks, affected,
                 currentMana, cachedTicks, reports, totalDisplay, fired, prev,
                 repStart, repTicks>>

\* the value updateTicks stores at the start of predict
TicksAtStart(pred, stats) == updateTicks(pred.action, stats)

\* One more repetition begins: canStart holds, currentMana is saved, and
\* predict starts by updateTicks and reads ticks() for its loop; if that
\* raises, update is left by the exception.
StartRepetition ==
  /\ pc = "rep"
  /\ RepetitionStarts
  /\ currentMana' = state.resources["mana"]
  /\ cachedTicks' = [cachedTicks EXCEPT ![prediction.name] =
                       TicksAtStart(prediction, state.stats)]
  /\ ticks' = 0
  /\ repTicks' = 0
  /\ repStart' = [entryStart EXCEPT !.resources = state.resources,
                                    !.stats = state.stats,
                                    !.skills = state.skills]
  /\ pc' = IF TicksRaises(cachedTicks'[prediction.name]) THEN "threw"
           ELSE IF MoreTicks(0, cachedTicks'[prediction.name]) THEN "tick"
           ELSE "endrep"
  /\ UNCHANGED <<last, page, actions, i, loop, state, snapshots, total, totalTicks, affected,
                 isValid, reports, totalDisplay, fired, prev, entryStart,
                 entryLog>>

\* Variant: the value tick returns is not looked at.
ContinuesWhateverTick(again, n, t) == MoreTicks(n, t)

\* predict's loop goes on after a tick: tick returned true (no break), and
\* ticks < prediction.ticks()
ContinuesAfter(again, n, t) == again /\ MoreTicks(n, t)

\* One body of predict's loop for a loop-bearing action, and the loop's test.
Tick ==
  /\ pc = "tick"
  /\ ~prediction.loop.isNull
  /\ LET t == cachedTicks[prediction.name]
         n == TickOnce(prediction, [state |-> state, fired |-> fired], t)
     IN  /\ state' = n.state
         /\ fired' = [n.fired EXCEPT ![prediction.name].ticks = @ + 1]
         /\ ticks' = ticks + 1
         /\ repTicks' = repTicks + 1
         /\ pc' = IF ContinuesAfter(n.again, ticks + 1, t) THEN "tick" ELSE "endrep"
         /\ entryLog' = [entryLog EXCEPT
                           ![Len(entryLog)].below =
                             @ \/ state.resources["mana"] - 1 < 0
                               \/ n.state.resources["mana"] < 0,
                           ![Len(entryLog)].lastTick =
                             [ran |-> TRUE, again |-> n.again, delta |-> n.delta,
                              segment |-> n.segment,
                              loops |-> n.state.progress[prediction.name].total
                                        - state.progress[prediction.name].total]]
  /\ UNCHANGED <<last, page, actions, i, loop, snapshots, total, totalTicks, affected,
                 isValid, currentMana, cachedTicks, reports, totalDisplay, prev,
                 entryStart, repStart>>

\* All of predict's loop for an action without a loop.
PredictAll ==
  /\ pc = "tick"
  /\ prediction.loop.isNull
  /\ LET t == cachedTicks[prediction.name]
         n == PredictLoop(prediction, [state |-> state, fired |-> fired], t, 0)
     IN  /\ state' = n.state
         /\ fired' = [n.fired EXCEPT ![prediction.name].ticks = @ + n.ticks]
         /\ ticks' = n.ticks
         /\ repTicks' = n.ticks
         /\ entryLog' = [entryLog EXCEPT
                           ![Len(entryLog)].below =
                             @ \/ n.state.resources["mana"] < 0,
                           ![Len(entryLog)].lastTick =
                             [NoTick EXCEPT !.ran = n.ticks > 0, !.again = n.again]]
  /\ pc' = "endrep"
  /\ UNCHANGED <<last, page, actions, i, loop, snapshots, total, totalTicks, affected,
                 isValid, currentMana, cachedTicks, reports, totalDisplay, prev,
                 entryStart, repStart>>

\* Variant: the mana balance is not looked at.
ValidWhateverMana(valid, mana) == valid

\* isValid = isValid && state.resources.mana >= 0
ValidAfter(valid, mana) == valid /\ mana >= 0

\* the time of a repetition that spent `spent` mana, for a host whose
\* Chronomancy level and Ritual buff level are 0: spent / (1 + 0/60)^0.25,
\* and no division for the buff
RepetitionTime(spent, town) == spent

\* Variant: the effects have run when the mana is looked at.
ManaAfterEffects(left, after) == after

\* the mana that the validity test, the total and the time read: what
\* predict has left, the effects being run after them
ManaChecked(left, after) == left

\* Variant: the adjustment is not taken back.
ManaNotRestored(mana, amount) == mana

\* state.resources.mana += state.resources.adventures * 200
ManaRestored(mana, amount) == mana + amount

\* the amount mana is adjusted by around the addition to total:
\* state.resources.adventures * 200, for 'Adventure Guild' only
GuildAdjustment(name, r) ==
  IF name = "Adventure Guild" THEN r["adventures"] * 200 ELSE 0

\* the effects of a repetition: prediction.effect, then loop.effect.end
EffectsOfRepetition(pred, r, k) ==
  LET rk1 == IF pred.effect # "null" THEN effectFn(pred.name, r, k) ELSE <<r, k>>
  IN  IF ~pred.loop.isNull /\ "end" \in pred.loop.effect
      THEN loopEffectFn(pred.name, "end", rk1[1], rk1[2])
      ELSE rk1

\* After predict: validity, the adjustment for 'Adventure Guild' around the
\* addition to total, the time, and then the effects.
EndRepetition ==
  /\ pc = "endrep"
  /\ LET left == state.resources["mana"]
         mana == ManaChecked(left,
                   EffectsOfRepetition(prediction, state.resources,
                                       state.skills)[1]["mana"])
         amount == GuildAdjustment(listedAction.name, state.resources)
         adjusted == mana - amount
         restored == ManaRestored(adjusted, amount)
         spent == currentMana - restored
         rk == EffectsOfRepetition(prediction,
                 [state.resources EXCEPT !["mana"] = restored], state.skills)
         doEnd == ~prediction.loop.isNull /\ "end" \in prediction.loop.effect
     IN  /\ isValid' = ValidAfter(isValid, mana)
         /\ total' = total + (currentMana - adjusted)
         /\ totalTicks' = totalTicks + RepetitionTime(spent, state.resources["town"])
         /\ state' = [state EXCEPT !.resources = rk[1], !.skills = rk[2]]
         /\ fired' = IF doEnd
                     THEN [fired EXCEPT ![prediction.name].end = @ + 1]
                     ELSE fired
         /\ entryLog' = [entryLog EXCEPT ![Len(entryLog)] =
                           [@ EXCEPT !.reps = @ + 1,
                                     !.negative = @ \/ left < 0,
                                     !.repTicks = Append(@, repTicks),
                                     !.repLog = Append(@,
                                       [start |-> currentMana,
                                        left |-> left,
                                        amount |-> amount,
                                        counted |-> currentMana - adjusted,
                                        time |-> RepetitionTime(spent, state.resources["town"]),
                                        restored |-> restored,
                                        valid |-> isValid',
                                        after |-> rk[1]["mana"]])]]
  /\ loop' = loop + 1
  /\ pc' = "rep"
  /\ UNCHANGED <<last, page, actions, i, ticks, snapshots, affected, currentMana, cachedTicks,
                 reports, totalDisplay, prev, entryStart, repStart, repTicks>>

\* Variant: the snapshots are not taken after the entry.
SnapshotsKept(sn, st) == sn

\* for (let i in snapshots) snapshots[i].snap(state[i])
SnapshotsAfterEntry(sn, st) ==
  [stats |-> SnapshotSnap(sn.stats, st.stats),
   skills |-> SnapshotSnap(sn.skills, st.skills)]

\* what template(affected, state.resources, snapshots, isValid) is given
Report(index) ==
  [index |-> index,
   resources |-> [x \in affected |-> state.resources[x]],
   isValid |-> isValid,
   stats |-> SnapshotsAfterEntry(snapshots, state).stats.attributes,
   skills |-> SnapshotsAfterEntry(snapshots, state).skills.attributes]

\* The repetitions of the entry are over: the snapshots are taken and the
\* entry's element is filled.
EndEntry ==
  /\ pc = "rep"
  /\ ~RepetitionStarts
  /\ snapshots' = SnapshotsAfterEntry(snapshots, state)
  /\ reports' = Append(reports, Report(i))
  /\ entryLog' = [entryLog EXCEPT ![Len(entryLog)].ended = TRUE]
  /\ i' = NextEntry(i, Len(actions))
  /\ pc' = "entry"
  /\ UNCHANGED <<last, page, actions, loop, ticks, state, total, totalTicks, affected,
                 isValid, currentMana, cachedTicks, totalDisplay, fired, prev,
                 entryStart, repStart, repTicks>>

\* totalTicks /= 50, then h, m, s and tenths, each through Math.floor;
\* ('0' + h).slice(-2) keeps the last two digits
TotalTime(tt) ==
  LET secs == tt \div 50
  IN  <<(secs \div 3600) % 100, (secs % 3600) \div 60, secs % 60,
        ((tt % 50) * 10) \div 50>>

\* Variant: the totals of an empty list are not shown.
FinishSilentWhenEmpty ==
  /\ pc = "entry" /\ i > Len(actions)
  /\ totalDisplay' = IF actions = <<>> THEN totalDisplay
                     ELSE [shown |-> TRUE, total |-> total,
                           time |-> TotalTime(totalTicks)]
  /\ pc' = "done"
  /\ UNCHANGED <<last, page, actions, i, loop, ticks, state, snapshots, total, totalTicks,
                 affected, isValid, currentMana, cachedTicks, reports, fired,
                 prev, entryStart, repStart, repTicks, entryLog>>

\* After the last entry: the totals are shown.
Finish ==
  /\ pc = "entry" /\ i > Len(actions)
  /\ totalDisplay' = [shown |-> TRUE, total |-> total, time |-> TotalTime(totalTicks)]
  /\ pc' = "done"
  /\ UNCHANGED <<last, page, actions, i, loop, ticks, state, snapshots, total, totalTicks,
                 affected, isValid, currentMana, cachedTicks, reports, fired,
                 prev, entryStart, repStart, repTicks, entryLog>>

Next ==
  \/ \E list \in {actions, WithoutUnknown(actions)} : Update(list)
  \/ SkipEntry
  \/ BeginEntry
  \/ StartRepetition
  \/ Tick
  \/ PredictAll
  \/ EndRepetition
  \/ EndEntry
  \/ Finish

Spec == Init /\ [][Next]_vars
ManaSpec == ManaInit /\ [][Next]_vars
GuildSpec == GuildInit /\ [][Next]_vars
EngineSpec == EngineInit /\ [][Next]_vars
ResumeSpec == ResumeInit /\ [][Next]_vars

\* ------------------------------------------- tick, one iteration a step
\* The run with the two segment loops of tick taken one iteration at a
\* time.  The locals of tick are kept in `last`: the phase (op), the local
\* progress and segment, the additionalProgress once computed, and the mana
\* and the loop total the tick began with.

\* the lists of the loops, with and without a cap, and of an action
\* without a loop
SegmentNames == {"Surge Loop", "Const Loop", "Imbue Mind", "Haggle"}
SegmentLists == ListsOf(EntriesOf(SegmentNames))
SegmentInit == InitOn(SegmentLists)

\* predict's loop body begins for an action with a loop:
\* state.resources.mana--, and tick applies exp and reads the Progression;
\* `let segment = 0; let progress = progression.progress`
TickBegins ==
  /\ pc = "tick" /\ last.op = "none"
  /\ ~prediction.loop.isNull
  /\ state' = [state EXCEPT
                 !.resources["mana"] = ManaAfterTick(@),
                 !.stats = exp(prediction.action, state.stats,
                               cachedTicks[prediction.name])]
  /\ last' = [op |-> "before",
              progress |-> state.progress[prediction.name].progress,
              segment |-> 0, delta |-> Null,
              mana |-> state.resources["mana"],
              total |-> state.progress[prediction.name].total]
  /\ UNCHANGED <<page, actions, pc, i, loop, ticks, snapshots, total, totalTicks,
                 affected, isValid, currentMana, cachedTicks, reports,
                 totalDisplay, fired, prev, entryStart, repStart, repTicks,
                 entryLog>>

\* the test of the first loop: progress >= loopCost(segment)
SegmentBeforeGoesOn ==
  RGeq(last.progress,
       loopCost(prediction.name, state.progress[prediction.name],
                prediction.action, last.segment))

\* One iteration of the first loop: progress -= loopCost(segment++).
SegmentBeforeIterates ==
  /\ pc = "tick" /\ last.op = "before"
  /\ SegmentBeforeGoesOn
  /\ last' = [last EXCEPT
                !.progress = RSub(@, loopCost(prediction.name,
                                              state.progress[prediction.name],
                                              prediction.action, last.segment)),
                !.segment = @ + 1]
  /\ UNCHANGED <<page, actions, pc, i, loop, ticks, state, snapshots, total,
                 totalTicks, affected, isValid, currentMana, cachedTicks,
                 reports, totalDisplay, fired, prev, entryStart, repStart,
                 repTicks, entryLog>>

\* The first loop exits: additionalProgress is computed and added to the
\* local progress and to progression.progress.
SegmentBeforeExits ==
  /\ pc = "tick" /\ last.op = "before"
  /\ ~SegmentBeforeGoesOn
  /\ LET name == prediction.name
         a == prediction.action
         additionalProgress ==
           RMul(loopTick(name, state.progress[name], a, state.stats,
                         state.skills, state.resources, last.segment),
                Rat(a.manaCost, TicksRead(cachedTicks[name], a, state.stats)))
     IN  /\ last' = [last EXCEPT !.op = "after",
                                 !.progress = RAdd(@, additionalProgress),
                                 !.delta = additionalProgress]
         /\ state' = [state EXCEPT
                        !.progress[name].progress = RAdd(@, additionalProgress)]
  /\ UNCHANGED <<page, actions, pc, i, loop, ticks, snapshots, total, totalTicks,
                 affected, isValid, currentMana, cachedTicks, reports,
                 totalDisplay, fired, prev, entryStart, repStart, repTicks,
                 entryLog>>

\* the test of the second loop:
\* progress >= loopCost(segment) && segment < maxSegments
SegmentAfterGoesOn ==
  /\ RGeq(last.progress,
          loopCost(prediction.name, state.progress[prediction.name],
                   prediction.action, last.segment))
  /\ BelowMaxSegments(prediction, last.segment)

\* One iteration of the second loop: its body and its update expression.
SegmentAfterIterates ==
  /\ pc = "tick" /\ last.op = "after"
  /\ SegmentAfterGoesOn
  /\ LET name == prediction.name
         w == SegmentStep(prediction,
                [progress |-> last.progress, segment |-> last.segment,
                 p |-> state.progress[name], r |-> state.resources,
                 k |-> state.skills, fired |-> fired[name]])
     IN  /\ last' = [last EXCEPT !.progress = w.progress, !.segment = w.segment]
         /\ state' = [state EXCEPT !.resources = w.r, !.skills = w.k,
                                   !.progress[name] = w.p]
         /\ fired' = [fired EXCEPT ![name] = w.fired]
  /\ UNCHANGED <<page, actions, pc, i, loop, ticks, snapshots, total, totalTicks,
                 affected, isValid, currentMana, cachedTicks, reports,
                 totalDisplay, prev, entryStart, repStart, repTicks, entryLog>>

\* The second loop exits: tick returns, and predict's loop goes on or ends.
SegmentAfterExits ==
  /\ pc = "tick" /\ last.op = "after"
  /\ ~SegmentAfterGoesOn
  /\ LET name == prediction.name
         again == TickReturns(last.delta,
                              BelowMaxSegments(prediction, last.segment))
     IN  /\ fired' = [fired EXCEPT ![name].ticks = @ + 1]
         /\ ticks' = ticks + 1
         /\ repTicks' = repTicks + 1
         /\ pc' = IF ContinuesAfter(again, ticks + 1, cachedTicks[name])
                  THEN "tick" ELSE "endrep"
         /\ entryLog' = [entryLog EXCEPT
                           ![Len(entryLog)].below =
                             @ \/ last.mana - 1 < 0
                               \/ state.resources["mana"] < 0,
                           ![Len(entryLog)].lastTick =
                             [ran |-> TRUE, again |-> again, delta |-> last.delta,
                              segment |-> last.segment,
                              loops |-> state.progress[name].total - last.total]]
  /\ last' = NoLast
  /\ UNCHANGED <<page, actions, i, loop, state, snapshots, total, totalTicks,
                 affected, isValid, currentMana, cachedTicks, reports,
                 totalDisplay, prev, entryStart, repStart>>

SegmentNext ==
  \/ \E list \in {actions, WithoutUnknown(actions)} : Update(list)
  \/ SkipEntry
  \/ BeginEntry
  \/ StartRepetition
  \/ TickBegins
  \/ SegmentBeforeIterates
  \/ SegmentBeforeExits
  \/ SegmentAfterIterates
  \/ SegmentAfterExits
  \/ PredictAll
  \/ EndRepetition
  \/ EndEntry
  \/ Finish

\* update is synchronous: a step that can be taken is taken
SegmentSpec == SegmentInit /\ [][SegmentNext]_vars /\ WF_vars(SegmentNext)

\* ------------------------------------------------- Snapshot on its own
\* Largest value given to a Snapshot.
MaxValue == 2

\* the attributes given to a Snapshot: values for some of the stats
Mappings ==
  UNION {[K -> {RInt(v) : v \in 0..MaxValue}] : K \in SUBSET statList}

\* A Snapshot has been created, with attributes or without.
SnapInit ==
  /\ actions = <<>>
  /\ Idle
  /\ state = FreshState({})
  /\ cachedTicks = [name \in PredictionNames |-> 0]
  /\ page = PageWithPredictor
  /\ \/ /\ snapshots = [stats |-> SnapshotBare, skills |-> SnapshotNew(FreshSkills)]
        /\ last = [op |-> "bare", before |-> SnapshotBare, given |-> <<>>]
     \/ \E m \in Mappings :
          /\ snapshots = [stats |-> SnapshotNew(m), skills |-> SnapshotNew(FreshSkills)]
          /\ last = [op |-> "new", before |-> SnapshotBare, given |-> m]

\* snap(m) on the Snapshot
Snap(m) ==
  /\ last.op \in {"bare", "new", "snap"}
  /\ snapshots' = [snapshots EXCEPT !.stats = SnapshotSnap(@, m)]
  /\ last' = [op |-> "snap", before |-> snapshots.stats, given |-> m]
  /\ UNCHANGED <<page, actions, pc, i, loop, ticks, state, total, totalTicks,
                 affected, isValid, currentMana, cachedTicks, reports,
                 totalDisplay, fired, prev, entryStart, repStart, repTicks,
                 entryLog>>

SnapNext == \E m \in Mappings : Snap(m)

SnapSpec == SnapInit /\ [][SnapNext]_vars

\* ------------------------------------------- updateTicks on its own
\* Most steps of the level curve a stat's experience is drawn from.
MaxLevels == 2

\* experience at the steps of the level curve and halfway between them
ExpSamples == {RInt(k * (ExpPerLevel \div 2)) : k \in 0..(2 * MaxLevels)}

\* the rule whose tick count is looked at
ruleName == actions[1].name

\* A rule is listed once, the stats hold some experience, and predict has
\* stored the rule's tick count for them.
TicksInit ==
  /\ actions \in {<<[name |-> name, loops |-> 1]>> : name \in PredictionNames}
  /\ Idle
  /\ \E s \in [statList -> ExpSamples] :
       /\ state = [FreshState({}) EXCEPT !.stats = s]
       /\ cachedTicks = [name \in PredictionNames |->
                           IF name = ruleName
                           THEN updateTicks(predictions[name].action, s) ELSE 0]
  /\ snapshots = [stats |-> SnapshotNew(FreshStats), skills |-> SnapshotNew(FreshSkills)]
  /\ last = NoLast
  /\ page = PageWithPredictor

\* The experience of one stat becomes e, and predict stores the tick count
\* again: prediction.updateTicks(prediction.action, state.stats).
ChangeExp(stat, e) ==
  /\ last.op \in {"none", "exp"}
  /\ e # state.stats[stat]
  /\ state' = [state EXCEPT !.stats[stat] = e]
  /\ cachedTicks' = [cachedTicks EXCEPT ![ruleName] =
                       updateTicks(predictions[ruleName].action, state'.stats)]
  /\ last' = [op |-> "exp", stat |-> stat, stats |-> state.stats,
              ticks |-> cachedTicks[ruleName]]
  /\ UNCHANGED <<page, actions, pc, i, loop, ticks, snapshots, total,
                 totalTicks, affected, isValid, currentMana, reports,
                 totalDisplay, fired, prev, entryStart, repStart, repTicks,
                 entryLog>>

TicksNext == \E stat \in statList, e \in ExpSamples : ChangeExp(stat, e)

TicksSpec == TicksInit /\ [][TicksNext]_vars

\* ------------------------------------------------------- Koviko.run
\* Most globals the host has not defined when the page is loaded.
MaxMissing == 1

\* Most invocations of Koviko.run: the load event, the timeout, and one more.
MaxRuns == 3

\* the sets of globals that may be undefined
MissingSets ==
  {{f[k] : k \in 1..MaxMissing} \cap GlobalNames :
     f \in [1..MaxMissing -> GlobalNames \cup {"none"}]}

\* the lists of the page: none, and one with a rule without a loop, a name
\* without a Prediction and a rule with a loop
RunLists ==
  {<<>>,
   <<[name |-> "Smash Pots", loops |-> 1], [name |-> "Unknown", loops |-> 1],
     [name |-> "Const Loop", loops |-> 1]>>}

\* The page is loaded: run has not been called.
RunInit ==
  /\ actions \in RunLists
  /\ Idle
  /\ state = FreshState({})
  /\ snapshots = [stats |-> SnapshotNew(FreshStats), skills |-> SnapshotNew(FreshSkills)]
  /\ cachedTicks = [name \in PredictionNames |-> 0]
  /\ last = NoLast
  /\ \E missing \in MissingSets :
       page = [defined |-> GlobalNames \ missing, hasRan |-> FALSE, bound |-> {},
               logged |-> {}, constructed |-> FALSE, raised |-> FALSE,
               runs |-> 0, built |-> 0]

\* the place in Koviko.globals of the first name eval throws for, or 0
FirstMissing(defined) ==
  IF \A n \in 1..Len(globals) : globals[n] \in defined THEN 0
  ELSE CHOOSE n \in 1..Len(globals) :
         /\ globals[n] \notin defined
         /\ \A k \in 1..(n - 1) : globals[k] \in defined

\* run entered whatever hasRan is
RunsWhatever(hasRan) == TRUE

\* `if (!Koviko.hasRan)`
RunsBody(hasRan) == ~hasRan

\* Koviko.run(), called by the load event or by the timeout, the script
\* being at rest.  With hasRan true it does nothing.  With hasRan false, the
\* globals are bound in order.  At the first one eval throws for, the catch
\* block calls console.error, sets hasRan back to false and returns.  With
\* all bound, the Predictor is constructed, and its constructor calls
\* view.updateNextActions.
Run ==
  /\ page.runs < MaxRuns
  /\ pc \in {"idle", "done", "threw"}
  /\ LET n == FirstMissing(page.defined)
     IN  IF ~RunsBody(page.hasRan)
         THEN /\ page' = [page EXCEPT !.runs = @ + 1]
              /\ UNCHANGED <<last, actions, pc, i, loop, ticks, state, snapshots,
                             total, totalTicks, affected, isValid, currentMana,
                             cachedTicks, reports, totalDisplay, fired, prev,
                             entryStart, repStart, repTicks, entryLog>>
         ELSE IF n > 0
         THEN /\ page' = [page EXCEPT !.hasRan = FALSE,
                                      !.bound = {globals[k] : k \in 1..(n - 1)},
                                      !.logged = @ \cup {globals[n]},
                                      !.runs = @ + 1]
              /\ UNCHANGED <<last, actions, pc, i, loop, ticks, state, snapshots,
                             total, totalTicks, affected, isValid, currentMana,
                             cachedTicks, reports, totalDisplay, fired, prev,
                             entryStart, repStart, repTicks, entryLog>>
         ELSE /\ page' = [page EXCEPT !.hasRan = TRUE, !.bound = GlobalNames,
                                      !.constructed = TRUE,
                                      !.runs = @ + 1, !.built = @ + 1]
              /\ BeginUpdate(actions)

\* A script of the host defines a global that was missing.
HostDefines(g) ==
  /\ g \notin page.defined
  /\ page' = [page EXCEPT !.defined = @ \cup {g}]
  /\ UNCHANGED <<last, actions, pc, i, loop, ticks, state, snapshots, total,
                 totalTicks, affected, isValid, currentMana, cachedTicks,
                 reports, totalDisplay, fired, prev, entryStart, repStart,
                 repTicks, entryLog>>

RunNext ==
  \/ Run
  \/ \E g \in GlobalNames : HostDefines(g)
  \/ Next

RunSpec == RunInit /\ [][RunNext]_vars

\* ------------------------------------------------------------ sanity
TypeOK ==
  /\ pc \in {"idle", "entry", "rep", "tick", "endrep", "done", "threw"}
  /\ \A name \in PredictionNames : cachedTicks[name] >= 0
  /\ pc \in {"tick", "endrep"} => cachedTicks[prediction.name] >= 1

\* ------------------------------------------------------------ claims
\* a report without the position of its entry in the list
Unplaced(report) == [report EXCEPT !.index = 0]
UnplacedAll(rs) == [j \in 1..Len(rs) |-> Unplaced(rs[j])]

\* C1: a run of update on the list the run before it was given yields the
\* same reports (resources, validity, stat and skill values and deltas) and
\* the same total mana and total time as that run, whatever the first run
\* left in the Prediction objects (_ticks) and in its own state.
C1_SameOutputOnRerun ==
  (pc = "done" /\ prev.has /\ prev.actions = actions)
    => (reports = prev.reports /\ totalDisplay = prev.totalDisplay)

\* a second run has ended on a list whose first rule needs 250 ticks at first
\* and whose _ticks the first run left at 84
C1_Witness ==
  /\ pc = "done" /\ prev.has /\ prev.actions = actions
  /\ Len(actions) = 2 /\ Len(reports) = 2
  /\ actions[1] = [name |-> "Smash Pots", loops |-> 2]
  /\ entryLog[1].repTicks = <<250, 84>>
  /\ ~reports[1].isValid

\* C2: in every state of a run, the completed segments of every Progression
\* are a multiple of the segments per loop of its action.
C2_CompletedMultipleOfSegments ==
  \A name \in DOMAIN state.progress :
    state.progress[name].completed % predictions[name].action.segments = 0

\* a loop has been completed, and the run goes on ticking
C2_Witness ==
  /\ pc = "tick"
  /\ \E name \in DOMAIN state.progress : state.progress[name].completed > 0

\* C3: for a loop rule that has a max, the completed segments never exceed
\* max * segments per loop.
C3_CompletedWithinMax ==
  \A name \in DOMAIN state.progress :
    predictions[name].loop.hasMax
      => state.progress[name].completed
           <= loopMax(name) * predictions[name].action.segments

\* the per-tick progress of "Const Loop": tickProgress * (manaCost / ticks)
ConstLoopProgress ==
  RMul(RInt(TickProgress),
       Rat(predictions["Const Loop"].action.manaCost, cachedTicks["Const Loop"]))

\* C4: for the loop with N segments of constant cost C and constant tick
\* progress d, from a fresh Progression: until the ticks have accumulated
\* N * C nothing is completed, and at the tick that reaches N * C, completed
\* is N, the total of loops one more, effect.loop has been invoked once and
\* effect.segment N times.
C4_LoopCompletesAtCost ==
  ("Const Loop" \in DOMAIN state.progress /\ fired["Const Loop"].ticks > 0)
    => LET p == state.progress["Const Loop"]
           f == fired["Const Loop"]
           N == predictions["Const Loop"].action.segments
           acc == RScale(ConstLoopProgress, f.ticks)
           whole == RInt(N * SegmentCost)
       IN  /\ REq(acc, whole)
             => /\ p.completed = N
                /\ p.total = HostTotalLoops + 1
                /\ f.loop = 1
                /\ f.segment = N
           /\ ~RGeq(acc, whole)
             => /\ p.completed = 0
                /\ p.total = HostTotalLoops
                /\ f.loop = 0
                /\ f.segment < N

\* the fourth tick of "Const Loop" (N = 2, C = 100, d = 50) has run
C4_Witness ==
  /\ "Const Loop" \in DOMAIN state.progress
  /\ fired["Const Loop"].ticks = 4
  /\ REq(ConstLoopProgress, RInt(50))
  /\ predictions["Const Loop"].action.segments = 2 /\ SegmentCost = 100
  /\ state.progress["Const Loop"].completed = 2

\* C5: after the ticks of a repetition of an action without a loop, with T
\* the tick count updateTicks computed: T >= 1 ticks have run, mana is T
\* less than before, and every stat of the action has gained T times
\* stats[stat] * expMult * (manaCost / T) * bonus(stat), the others nothing.
\* The action with stats {Str: 10} and manaCost 1 at level 0 has T = 10.
C5_RepetitionSpendsTicks ==
  (pc = "endrep" /\ prediction.loop.isNull)
    => LET a == prediction.action
           T == updateTicks(a, repStart.stats)
       IN  /\ T >= 1
           /\ repTicks = T
           /\ state.resources["mana"] = currentMana - T
           /\ \A stat \in statList :
                REq(RSub(state.stats[stat], repStart.stats[stat]),
                    IF stat \in DOMAIN a.stats
                    THEN RScale(Rat(a.stats[stat] * a.expMult * a.manaCost
                                      * getTotalBonusXP(stat), T), T)
                    ELSE RInt(0))
           /\ (a.stats = [Str |-> 10] /\ a.manaCost = 1
                 /\ getLevelFromExp(repStart.stats["Str"]) = 0)
                => T = 10

\* a repetition of the action with stats {Str: 10} and manaCost 1 has run its
\* 10 ticks at level 0
C5_Witness ==
  /\ pc = "endrep" /\ prediction.loop.isNull
  /\ prediction.action.stats = [Str |-> 10] /\ prediction.action.manaCost = 1
  /\ getLevelFromExp(repStart.stats["Str"]) = 0
  /\ repTicks = 10
  /\ currentMana - state.resources["mana"] = 10

\* C6: when the canStart function of an entry's rule is false for the
\* resources before the first repetition, the entry ends at once: no
\* repetition and no tick runs, resources, stats, skills, Progressions and
\* both totals stay as they are, and the entry is reported valid.
C6_NoStartNoChange ==
  [][(/\ pc = "rep" /\ loop = 0
      /\ prediction.canStart = "function"
      /\ ~canStartFn(prediction.name, state.resources))
       => /\ pc' = "entry" /\ i' = i + 1
          /\ state' = state
          /\ total' = total /\ totalTicks' = totalTicks
          /\ fired' = fired
          /\ Len(reports') = Len(reports) + 1
          /\ reports'[Len(reports')].index = i
          /\ reports'[Len(reports')].isValid
          /\ reports'[Len(reports')].resources
               = [x \in affected |-> entryStart.resources[x]]
          /\ entryLog'[Len(entryLog')].reps = 0]_vars

\* an entry of "Haggle" has ended without a repetition
C6_Witness ==
  /\ pc = "entry" /\ entryLog # <<>>
  /\ LET e == entryLog[Len(entryLog)]
     IN  /\ e.name = "Haggle" /\ e.ended /\ e.reps = 0
         /\ ~canStartFn("Haggle", entryStart.resources)
         /\ state.resources = entryStart.resources
         /\ reports[Len(reports)].isValid

\* C7: an entry of a rule whose parameters have canStart = false runs no
\* repetition.
C7_FixedFalseNeverStarts ==
  \A j \in 1..Len(entryLog) :
    LET params == predictionParams(entryLog[j].name)
    IN  ("canStart" \in DOMAIN params /\ params["canStart"] = "false")
          => /\ entryLog[j].reps = 0
             /\ (j = Len(entryLog) => pc \notin {"tick", "endrep"})

\* what canStart of the Prediction gives for the resources r
CanStartNow(pred, r) ==
  \/ pred.canStart = "true"
  \/ pred.canStart = "function" /\ canStartFn(pred.name, r)

\* C8: before every repetition of an entry canStart is evaluated on the
\* resources of that moment: a repetition starts exactly when fewer than
\* the entry's repeat count have run and canStart holds; otherwise the entry
\* ends there with its report and the list goes on with the next entry.  At
\* the end of the run every entry that names a rule has its report.
C8_CanStartBeforeEveryRepetition ==
  /\ [][pc = "rep"
          => IF loop < listedAction.loops /\ CanStartNow(prediction, state.resources)
             THEN /\ pc' \in {"tick", "endrep"}
                  /\ i' = i /\ loop' = loop
                  /\ reports' = reports
             ELSE /\ pc' = "entry" /\ i' = i + 1
                  /\ Len(reports') = Len(reports) + 1
                  /\ reports'[Len(reports')].index = i
                  /\ entryLog'[Len(entryLog')].reps = loop]_vars
  /\ [](pc = "done"
          => /\ i = Len(actions) + 1
             /\ {reports[j].index : j \in 1..Len(reports)}
                  = {j \in 1..Len(actions) : HasPrediction(actions[j].name)})

\* an entry of "Haggle" asked for twice ended after one repetition, canStart
\* having become false, and the run has ended with both reports
C8_Witness ==
  /\ pc = "done" /\ Len(entryLog) = 2 /\ Len(reports) = 2
  /\ LET e == entryLog[2]
     IN  /\ e.name = "Haggle" /\ e.loops = 2 /\ e.reps = 1 /\ e.ended
         /\ ~canStartFn("Haggle", state.resources)
         /\ canStartFn("Haggle", entryStart.resources)

\* C9: an entry whose name has no Prediction only moves update to the next
\* entry: state, snapshots, totals and reports stay as they are; and the run
\* of a list gives, entry for entry, the reports and the totals that the run
\* of the list with those entries removed gives.
C9_UnknownEntrySkipped ==
  /\ [][(pc = "entry" /\ i <= Len(actions) /\ ~HasPrediction(actions[i].name))
          => /\ pc' = "entry" /\ i' = i + 1
             /\ UNCHANGED <<state, snapshots, total, totalTicks, reports,
                            affected, cachedTicks, fired>>]_vars
  /\ []((pc = "done" /\ prev.has /\ actions = WithoutUnknown(prev.actions))
          => /\ UnplacedAll(reports) = UnplacedAll(prev.reports)
             /\ totalDisplay = prev.totalDisplay)

\* a list with an unknown name before a known one has been run, and then the
\* list without the unknown name
C9_Witness ==
  /\ pc = "done" /\ prev.has
  /\ Len(prev.actions) = 2 /\ ~HasPrediction(prev.actions[1].name)
  /\ HasPrediction(prev.actions[2].name)
  /\ actions = WithoutUnknown(prev.actions)
  /\ Len(reports) = 1 /\ Len(prev.reports) = 1
  /\ prev.reports[1].index = 2 /\ reports[1].index = 1
  /\ totalDisplay.total > 0

\* C10: a negative mana balance stops nothing.  The ticks of a repetition of
\* an action without a loop are those its stats ask for, and mana goes down
\* by one with each, also below zero; an entry of a rule whose canStart is
\* not a function runs all its repetitions; and an entry in which mana was
\* negative after the ticks of a repetition is reported invalid.
C10_NegativeManaOnlyInvalidates ==
  /\ (pc = "endrep" /\ prediction.loop.isNull)
       => /\ repTicks = TicksAtStart(prediction, repStart.stats)
          /\ state.resources["mana"] = currentMana - repTicks
  /\ \A j \in 1..Len(entryLog) :
       /\ (entryLog[j].ended /\ predictions[entryLog[j].name].canStart # "function")
            => entryLog[j].reps = entryLog[j].loops
       /\ (j <= Len(reports) /\ entryLog[j].negative) => ~reports[j].isValid
       /\ (j <= Len(reports) /\ ~entryLog[j].negative) => reports[j].isValid
  /\ pc = "done" => Len(reports) = Len(entryLog)

\* a repetition that began with negative mana has run all its ticks, and the
\* run has ended with both entries reported invalid
C10_Witness ==
  /\ pc = "done" /\ Len(reports) = 2
  /\ currentMana < 0 /\ repTicks >= 1
  /\ state.resources["mana"] = currentMana - repTicks
  /\ entryLog[1].negative /\ entryLog[2].negative
  /\ entryLog[2].reps = entryLog[2].loops
  /\ ~reports[1].isValid /\ ~reports[2].isValid

\* C11: an entry in which mana was below zero at any point of a repetition,
\* also at a tick after which a segment effect brought it back to zero or
\* more before the repetition ended, is reported invalid.
C11_BelowZeroAtAnyTickInvalidates ==
  \A j \in 1..Len(reports) : entryLog[j].below => ~reports[j].isValid

\* C12: once an entry of a run is reported invalid, every later entry of the
\* run is reported invalid too.
C12_InvalidForTheRestOfTheRun ==
  \A j \in 1..Len(reports) : \A k \in j..Len(reports) :
    ~reports[j].isValid => ~reports[k].isValid

\* C13: the run of an empty list shows total mana 0 and total time 0, fills
\* no report, and ends with resources, stats, skills and Progressions as a
\* run starts with them.
C13_EmptyListYieldsZeroTotals ==
  (pc = "done" /\ actions = <<>>)
    => /\ reports = <<>>
       /\ total = 0 /\ totalTicks = 0
       /\ totalDisplay = [shown |-> TRUE, total |-> 0, time |-> <<0, 0, 0, 0>>]
       /\ state.resources = [mana |-> StartMana, town |-> 0]
       /\ state.stats = [name \in statList |-> RInt(0)]
       /\ state.skills = [magic |-> RInt(HostMagicExp)]
       /\ state.progress = <<>>
       /\ entryLog = <<>>

\* the run of the empty list has ended
C13_Witness ==
  pc = "done" /\ actions = <<>> /\ totalDisplay.shown /\ i = 1

\* the attributes of the Snapshot observed on its own
observed == snapshots.stats.attributes

\* C14: the deltas of a Snapshot are null after its creation and before any
\* snap; after a snap, the delta of every key given is the value given minus
\* the value stored before (for a Snapshot created empty, the value its
\* first snap has just stored).
C14_DeltaIsDifference ==
  /\ last.op = "new" => \A key \in DOMAIN observed : observed[key].delta = Null
  /\ last.op = "snap" =>
       \A key \in (DOMAIN observed) \cap (DOMAIN last.given) :
         /\ observed[key].delta # Null
         /\ observed[key].delta =
              Minus(last.given[key],
                    IF key \in DOMAIN last.before.attributes
                    THEN last.before.attributes[key].value
                    ELSE last.given[key])

\* a snap has given a key a value other than the one stored
C14_Witness ==
  /\ last.op = "snap"
  /\ \E key \in (DOMAIN last.before.attributes) \cap (DOMAIN last.given) :
       /\ last.before.attributes[key].value # NaN
       /\ last.before.attributes[key].value # last.given[key]
       /\ observed[key].delta # RInt(0)

\* C15 as stated: after the creation with attributes or a snap, every key of
\* the mapping given is stored with the value given.
C15_EveryGivenKeyStored ==
  last.op \in {"new", "snap"} =>
    \A key \in DOMAIN last.given :
      key \in DOMAIN observed /\ observed[key].value = last.given[key]

\* C15: after the creation with attributes or a snap, the keys stored are
\* those of the initialization (of the first mapping given), and each of
\* them that the mapping given holds is stored with the value given.
C15_InitializedKeysHoldGiven ==
  last.op \in {"new", "snap"} =>
    /\ DOMAIN observed = IF last.before.isInitialized
                         THEN DOMAIN last.before.attributes
                         ELSE DOMAIN last.given
    /\ \A key \in (DOMAIN observed) \cap (DOMAIN last.given) :
         observed[key].value = last.given[key]

\* a snap has given a key of the initialization and one that is not
C15_Witness ==
  /\ last.op = "snap"
  /\ last.before.isInitialized
  /\ (DOMAIN last.given) \ (DOMAIN observed) # {}
  /\ (DOMAIN last.given) \cap (DOMAIN observed) # {}

\* the level a stat's experience gives
levelOf(stats, stat) == getLevelFromExp(stats[stat])

\* C16: changing the experience of a stat the rule's action does not list
\* leaves the rule's tick count as it was.
C16_AbsentStatLeavesTicks ==
  (last.op = "exp" /\ last.stat \notin DOMAIN predictions[ruleName].action.stats)
    => cachedTicks[ruleName] = last.ticks

\* the level of a stat the rule does not list has changed
C16_Witness ==
  /\ last.op = "exp"
  /\ last.stat \notin DOMAIN predictions[ruleName].action.stats
  /\ levelOf(state.stats, last.stat) # levelOf(last.stats, last.stat)
  /\ cachedTicks[ruleName] > 1

\* C17: raising the level of a stat, the others as they are, never raises
\* the rule's tick count.
C17_TicksFallWithLevel ==
  (last.op = "exp" /\ levelOf(state.stats, last.stat) >= levelOf(last.stats, last.stat))
    => cachedTicks[ruleName] <= last.ticks

\* a higher level of a stat the rule lists has lowered the tick count
C17_Witness ==
  /\ last.op = "exp"
  /\ last.stat \in DOMAIN predictions[ruleName].action.stats
  /\ levelOf(state.stats, last.stat) > levelOf(last.stats, last.stat)
  /\ cachedTicks[ruleName] < last.ticks

\* C18: reading the tick count never raises: no repetition leaves update by
\* an exception, also when the tick count computed is 0.
C18_TickCountNeverRaises ==
  pc # "threw"

\* C19: when a global could not be bound, run has thrown to its caller and
\* no Predictor is constructed, then or later.
C19_FailedBindingIsFatal ==
  page.logged # {} => (page.raised /\ ~page.constructed)

\* the segment the first loop of tick finds for a Progression
currentSegment(name) ==
  SegmentBefore(predictions[name], state.progress[name],
                state.progress[name].progress, 0)[2]

\* the cost of all segments of one loop
wholeLoopCost(name) ==
  LET a == predictions[name].action
  IN  RSum([k \in 0..(a.segments - 1) |->
              loopCost(name, state.progress[name], a, k)],
           0..(a.segments - 1))

\* C20 as stated: the progress of a Progression is at least 0 and less than
\* the cost of the current segment.
C20_ProgressBelowSegmentCost ==
  \A name \in DOMAIN state.progress :
    /\ RGeq(state.progress[name].progress, RInt(0))
    /\ ~RGeq(state.progress[name].progress,
             loopCost(name, state.progress[name], predictions[name].action,
                      currentSegment(name)))

\* C20: the progress of a Progression is at least 0 and less than the cost
\* of all segments of the loop: it is what the loop under way has
\* accumulated over its segments, and 0 again when the loop completes.
C20_ProgressBelowLoopCost ==
  \A name \in DOMAIN state.progress :
    /\ RGeq(state.progress[name].progress, RInt(0))
    /\ ~RGeq(state.progress[name].progress, wholeLoopCost(name))
    /\ currentSegment(name) < predictions[name].action.segments

\* after a tick the progress is at least the cost of the first segment
C20_Witness ==
  \E name \in DOMAIN state.progress :
    /\ fired[name].ticks > 0
    /\ currentSegment(name) >= 1
    /\ RGeq(state.progress[name].progress,
            loopCost(name, state.progress[name], predictions[name].action, 0))

\* the tick last run for the entry that was begun last
lastTick == entryLog[Len(entryLog)].lastTick

StatsAfterTicks(a, n, t) ==
  \A stat \in statList \cap (DOMAIN a.stats) :
    REq(state.stats[stat],
        RAdd(repStart.stats[stat], RScale(ExpPerTick(a, stat, t), n)))

\* C22: during a repetition the tick count is the one computed from the
\* stats the repetition began with; every tick adds the experience scaled
\* by that count, and an action without a loop runs that many ticks, also
\* when a stat gains a level on the way.
C22_TicksFixedForRepetition ==
  pc \in {"tick", "endrep"} =>
    LET a == prediction.action
        t == updateTicks(a, repStart.stats)
    IN  /\ cachedTicks[prediction.name] = t
        /\ StatsAfterTicks(a, repTicks, t)
        /\ (pc = "endrep" /\ prediction.loop.isNull) => repTicks = t

\* a repetition of 'Smash Pots' has ended in which Str gained a level
C22_Witness ==
  /\ pc = "endrep"
  /\ prediction.name = "Smash Pots"
  /\ levelOf(state.stats, "Str") > levelOf(repStart.stats, "Str")
  /\ repTicks = cachedTicks["Smash Pots"]
  /\ updateTicks(prediction.action, state.stats) < repTicks

\* C23: a tick that returns false is the last of its repetition; the
\* repetition of a loop has then spent one mana and gained one tick of
\* experience per tick run (one of each when its first tick made no
\* progress), and the repetitions after it are run all the same.
C23_TickStopsRepetition ==
  /\ (pc = "tick" /\ repTicks > 0) => (lastTick.again /\ lastTick.delta.n # 0)
  /\ (pc = "endrep" /\ ~prediction.loop.isNull) =>
       /\ repTicks >= 1
       /\ repTicks < cachedTicks[prediction.name] => ~lastTick.again
       /\ state.resources["mana"] = repStart.resources["mana"] - repTicks
       /\ StatsAfterTicks(prediction.action, repTicks, cachedTicks[prediction.name])
  /\ \A j \in 1..Len(entryLog) :
       (entryLog[j].ended /\ ~predictions[entryLog[j].name].loop.isNull)
         => entryLog[j].reps = entryLog[j].loops

\* an entry of the capped 'Imbue Mind' has run repetitions of one tick each
C23_Witness ==
  \E j \in 1..Len(entryLog) :
    /\ entryLog[j].name = "Imbue Mind"
    /\ entryLog[j].ended
    /\ entryLog[j].repTicks = <<1, 1>>
    /\ cachedTicks["Imbue Mind"] = 2
    /\ \A q \in 1..2 : entryLog[j].repLog[q].start - entryLog[j].repLog[q].left = 1

RECURSIVE RepsOf(_, _)
\* the repetitions run for the rule `name` in the first j entries begun
RepsOf(name, j) ==
  IF j = 0 THEN 0
  ELSE RepsOf(name, j - 1)
       + (IF entryLog[j].name = name THEN entryLog[j].reps ELSE 0)

\* C24: what a repetition adds to the total and to the time is the mana its
\* ticks spent, and it is valid only if that left mana at zero or more,
\* whatever its effect then gives; the effect is run once per repetition.
C24_EffectsAfterChecks ==
  /\ \A j \in 1..Len(entryLog) : \A q \in 1..Len(entryLog[j].repLog) :
       LET r == entryLog[j].repLog[q]
       IN  /\ r.counted = r.start - r.left
           /\ r.time = r.start - r.left
           /\ r.left < 0 => ~r.valid
  /\ GetOr0(state.resources, "temp1") = RepsOf("Smash Pots", Len(entryLog))
  /\ fired["Const Loop"].end = RepsOf("Const Loop", Len(entryLog))

\* a repetition of 'Smash Pots' left mana below zero and its effect brought
\* it back above
C24_Witness ==
  \E j \in 1..Len(entryLog) : \E q \in 1..Len(entryLog[j].repLog) :
    /\ entryLog[j].name = "Smash Pots"
    /\ entryLog[j].repLog[q].left < 0
    /\ entryLog[j].repLog[q].after >= 0
    /\ ~entryLog[j].repLog[q].valid

\* C25: the segment effect of a loop has been invoked as many times as
\* completed plus the index of the current segment say.
C25_SegmentEffectOncePerSegment ==
  \A name \in DOMAIN state.progress :
    "segment" \in predictions[name].loop.effect
      => fired[name].segment = state.progress[name].completed + currentSegment(name)

\* the loops a Progression says were completed in the run
loopsCompleted(name) ==
  state.progress[name].completed \div predictions[name].action.segments

\* C26: for every loop, total less the host's total is completed divided
\* by the segments of a loop, and the number of times the loop effect was
\* invoked; after a tick that completed a loop the progress is 0.
C26_LoopCountersInLockstep ==
  /\ \A name \in DOMAIN state.progress :
       /\ state.progress[name].completed % predictions[name].action.segments = 0
       /\ state.progress[name].total - HostTotalLoops = loopsCompleted(name)
       /\ "loop" \in predictions[name].loop.effect
            => fired[name].loop = loopsCompleted(name)
  /\ (entryLog # <<>> /\ lastTick.loops > 0)
       => state.progress[entryLog[Len(entryLog)].name].progress = RInt(0)

\* a tick has completed a loop
C26_Witness ==
  /\ entryLog # <<>>
  /\ lastTick.loops > 0
  /\ pc = "endrep"
  /\ fired[prediction.name].loop = 1
  /\ state.progress[prediction.name].total = HostTotalLoops + 1

\* C27: for every repetition of 'Adventure Guild' the mana after the
\* adjustment is taken back is the mana predict left, the adjustment
\* enters the total only, and for other actions there is none.
C27_GuildAdjustmentRestored ==
  \A j \in 1..Len(entryLog) : \A q \in 1..Len(entryLog[j].repLog) :
    LET r == entryLog[j].repLog[q]
    IN  /\ r.restored = r.left
        /\ entryLog[j].name = "Adventure Guild" => r.after = r.left
        /\ r.time = r.start - r.left
        /\ r.counted = r.start - r.left + r.amount
        /\ entryLog[j].name # "Adventure Guild" => r.amount = 0

\* a repetition of 'Adventure Guild' with adventures under way
C27_Witness ==
  \E j \in 1..Len(entryLog) : \E q \in 1..Len(entryLog[j].repLog) :
    /\ entryLog[j].name = "Adventure Guild"
    /\ entryLog[j].repLog[q].amount > 0
    /\ entryLog[j].ended

RECURSIVE SumOver(_, _)
\* the sum of f[x] over x in S
SumOver(f, S) ==
  IF S = {} THEN 0
  ELSE LET x == CHOOSE y \in S : TRUE IN f[x] + SumOver(f, S \ {x})

\* the ticks run in the run
ticksRun == SumOver([name \in PredictionNames |-> fired[name].ticks], PredictionNames)

\* the mana the effects of the repetitions have given in the run
manaGranted ==
  goldCostSmashPots
    * (IF GetOr0(state.resources, "temp1") <= goodPots
       THEN GetOr0(state.resources, "temp1") ELSE goodPots)

\* C28: at the end of a run the total shown is the number of ticks run, and
\* the mana is the starting mana less that total plus the mana the effects
\* of the repetitions gave.
C28_TotalIsTicksRun ==
  pc = "done" =>
    /\ totalDisplay.total = ticksRun
    /\ total = ticksRun
    /\ state.resources["mana"] = StartMana - ticksRun + manaGranted

\* a run with a loop and with 'Smash Pots' has ended
C28_Witness ==
  /\ pc = "done"
  /\ fired["Const Loop"].ticks > 0
  /\ fired["Smash Pots"].ticks > 0
  /\ manaGranted > 0

\* the rules with a loop
LoopNames == {name \in PredictionNames : ~predictions[name].loop.isNull}

\* C29: a Progression appears only when an entry of its loop begins and the
\* run has none for it, as a fresh one; once there it changes only by the
\* ticks of an entry of its loop, and goes only when a new run begins.
C29_ProgressionMadeOnce ==
  [][\A name \in LoopNames :
       /\ (name \notin DOMAIN state.progress /\ name \in DOMAIN state'.progress)
            => /\ pc = "entry" /\ listedAction.name = name
               /\ state'.progress[name] = FreshProgression
       /\ (/\ name \in DOMAIN state.progress /\ name \in DOMAIN state'.progress
           /\ state'.progress[name] # state.progress[name])
            => (pc = "tick" /\ listedAction.name = name)
       /\ (name \in DOMAIN state.progress /\ name \notin DOMAIN state'.progress)
            => (pc \in {"done", "threw"} /\ pc' = "entry" /\ i' = 1)]_vars

\* the third entry has completed the loop the first entry began, another
\* action being listed between them
C29_Witness ==
  /\ Len(actions) = 3 /\ i = 3 /\ pc = "endrep"
  /\ actions[1] = [name |-> "Const Loop", loops |-> 1]
  /\ actions[2].name = "Smash Pots"
  /\ actions[3] = [name |-> "Const Loop", loops |-> 1]
  /\ state.progress["Const Loop"].completed = 2
  /\ fired["Const Loop"].ticks = 4

\* C30: the delta an entry's report has for a stat or a skill is its value
\* after the entry less its value when the entry began, 0 for an entry that
\* ran no repetition.
C30_DeltaIsEntrysChange ==
  \A j \in 1..Len(reports) :
    /\ \A stat \in statList :
         /\ (j = Len(reports) /\ pc = "entry")
              => reports[j].stats[stat].value = state.stats[stat]
         /\ reports[j].stats[stat].delta =
              RSub(reports[j].stats[stat].value, entryLog[j].stats[stat])
         /\ entryLog[j].reps = 0 => REq(reports[j].stats[stat].delta, RInt(0))
    /\ \A skill \in DOMAIN entryLog[j].skills :
         /\ reports[j].skills[skill].delta =
              RSub(reports[j].skills[skill].value, entryLog[j].skills[skill])
         /\ entryLog[j].reps = 0 => REq(reports[j].skills[skill].delta, RInt(0))
    /\ j = 1 => /\ entryLog[j].stats = FreshStats
                /\ entryLog[j].skills = FreshSkills
    /\ j > 1 => /\ \A stat \in statList :
                     entryLog[j].stats[stat] = reports[j - 1].stats[stat].value
                /\ \A skill \in DOMAIN entryLog[j].skills :
                     entryLog[j].skills[skill] = reports[j - 1].skills[skill].value

\* two entries have each changed a stat, and another has changed nothing
C30_Witness ==
  /\ Len(reports) = 2
  /\ reports[1].stats["Str"].delta.n > 0
  /\ reports[2].stats["Str"].delta.n > 0
  /\ REq(reports[2].stats["Int"].delta, RInt(0))

\* C31: whatever the invocations of Koviko.run, the Predictor is constructed
\* at most once, and only by an invocation that found hasRan false and could
\* bind every global; an invocation that cannot bind a global constructs
\* nothing and leaves hasRan false.
C31_PredictorConstructedOnce ==
  [][page'.runs # page.runs =>
       /\ page'.built <= 1
       /\ page'.built # page.built
            => /\ GlobalNames \subseteq page.defined
               /\ page'.bound = GlobalNames
               /\ ~page.hasRan /\ page'.hasRan
       /\ (~page.hasRan /\ ~(GlobalNames \subseteq page.defined))
            => /\ page'.built = page.built
               /\ ~page'.constructed
               /\ ~page'.hasRan]_vars

\* run has failed to bind a global, has later constructed the Predictor, and
\* has been called once more after that
C31_Witness ==
  /\ page.runs = 3
  /\ page.logged # {}
  /\ page.built = 1 /\ page.constructed /\ page.hasRan
  /\ pc = "done"

============================================================================
